---- MODULE Spec2Model ----
(***************************************************************************)
(* Model of the package index service (package_objects.py,                 *)
(* package_server.py): the DataPackageStore with its two maps, and         *)
(* TCPClientHandler.process_request dispatching parsed requests to it.     *)
(*                                                                         *)
(* The store keeps Python lists, so the maps are modelled as functions     *)
(* from package names to sequences: order and repetition are kept.         *)
(* Every store operation runs under `with self.__data_lock`, so in the     *)
(* sequential specification Spec one request is one atomic step.           *)
(***************************************************************************)
EXTENDS Integers, Sequences, FiniteSets, TLC

\* ---------------------------------------------------------------- bounds
MaxDeps == 2
MaxUsedBy == 2
MaxTokens == 5
MaxWire == 20
MaxOut == 4

\* the package names requests are drawn from
Names == {"a", "b"}

\* dependency lists a request can carry: every list of at most MaxDeps names
\* (repetitions and the package's own name included)
RECURSIVE SeqsUpTo(_)
SeqsUpTo(n) ==
    IF n = 0 THEN {<<>>}
    ELSE LET shorter == SeqsUpTo(n - 1)
         IN  shorter \cup {Append(s, x) : s \in {t \in shorter : Len(t) = n - 1}, x \in Names}
DepLists == SeqsUpTo(MaxDeps)

\* ------------------------------------------------------ program constants
CMD_INDEX == "INDEX"
CMD_REMOVE == "REMOVE"
CMD_QUERY == "QUERY"
RESPONSE_OK == "OK"
RESPONSE_FAIL == "FAIL"
RESPONSE_ERROR == "ERROR"

VARIABLES
    dependencies,      \* DataPackageStore.dependencies: name -> list of names
    used_by,           \* DataPackageStore.used_by: name -> list of names
    old_dependencies,  \* dependencies as they were when the last request was dispatched
    old_used_by,       \* used_by as it was when the last request was dispatched
    request,           \* the DataPackage of the last request (command, name, dependencies)
    result,            \* what the store call of the last request returned or raised
    response,          \* the reply process_request produced for the last request
    data,              \* the string handed to process_request (a list of characters)
    sentBytes,         \* every byte the client has written to its connection so far
    pos,               \* how many of those bytes recv has already returned
    peer,              \* "open" until the client closes its socket, then "closed"
    hpc,               \* where TCPClientHandler.handle stands: recv, process, send, closed
    out,               \* the replies the handler has written, in order
    lock,              \* DataPackageStore.__data_lock: "free" or the thread that holds it
    threads            \* per worker thread: where it stands in its store call, and its locals

storeVars == <<dependencies, used_by, old_dependencies, old_used_by, request, result, response>>
connVars == <<sentBytes, pos, peer, hpc, out>>
concVars == <<lock, threads>>
otherVars == <<data, connVars, concVars>>
vars == <<storeVars, otherVars>>

\* ------------------------------------------------------- Python primitives
EmptyDict == [x \in {} |-> <<>>]

\* the worker threads of the model (process_client_request, lines 148-155)
Threads == {"t1", "t2"}

\* a worker that is not inside process_request
IdleThread ==
    [pc |-> "idle", req |-> [cmd |-> "NONE", name |-> "", deps |-> <<>>],
     items |-> <<>>, ret |-> "None", snapD |-> EmptyDict, snapU |-> EmptyDict]

\* `x in lst`
InList(x, lst) == \E i \in 1..Len(lst) : lst[i] = x

\* lst.remove(x) for a list that holds x: drops the first occurrence only
ListRemove(lst, x) ==
    LET i == CHOOSE k \in 1..Len(lst) : lst[k] = x /\ \A j \in 1..(k - 1) : lst[j] # x
    IN  SubSeq(lst, 1, i - 1) \o SubSeq(lst, i + 1, Len(lst))

\* d[k] = v
DictSet(d, k, v) == [x \in (DOMAIN d) \cup {k} |-> IF x = k THEN v ELSE d[x]]

\* d.pop(k, None)
DictPop(d, k) == [x \in (DOMAIN d) \ {k} |-> d[x]]

\* variant of self.used_by[item].remove(name) that leaves the list as it is
UsedByRemove_Keep(ub, item, name) ==
    IF item \notin DOMAIN ub THEN [used_by |-> ub, exc |-> "KeyError"]
    ELSE IF ~InList(name, ub[item]) THEN [used_by |-> ub, exc |-> "ValueError"]
    ELSE [used_by |-> ub, exc |-> "None"]

\* self.used_by[item].remove(name): KeyError when item is no key,
\* ValueError when name is not in the list
UsedByRemove(ub, item, name) ==
    IF item \notin DOMAIN ub THEN [used_by |-> ub, exc |-> "KeyError"]
    ELSE IF ~InList(name, ub[item]) THEN [used_by |-> ub, exc |-> "ValueError"]
    ELSE [used_by |-> [ub EXCEPT ![item] = ListRemove(@, name)], exc |-> "None"]

\* self.used_by[x].append(name): KeyError when x is no key
UsedByAppend(ub, x, name) ==
    IF x \notin DOMAIN ub THEN [used_by |-> ub, exc |-> "KeyError"]
    ELSE [used_by |-> [ub EXCEPT ![x] = Append(@, name)], exc |-> "None"]

\* ------------------------------------------------------ DataPackageStore
\* variant of find_package whose caller tests the returned list for truth
\* instead of `is not None`
find_package_Truthy(deps, key) ==
    IF key \in DOMAIN deps /\ deps[key] # <<>> THEN "Present" ELSE "Absent"

\* find_package: self.dependencies.get(key, None)
find_package(deps, key) == IF key \in DOMAIN deps THEN "Present" ELSE "Absent"

\* variant of the line-74 test that refuses only when every dependency is missing
DependenciesUnmet_All(deps, package) ==
    /\ package.deps # <<>>
    /\ \A i \in 1..Len(package.deps) : package.deps[i] \notin DOMAIN deps

\* add_package, line 74: any(x not in self.dependencies for x in package.dependencies)
DependenciesUnmet(deps, package) ==
    \E i \in 1..Len(package.deps) : package.deps[i] \notin DOMAIN deps

\* add_package, line 81: [x for x in prev if x not in package.dependencies]
StaleItems(prev, package) == SelectSeq(prev, LAMBDA x : ~InList(x, package.deps))

\* add_package, lines 81-83: the loop stops at the first exception and keeps
\* the removals already made
RECURSIVE CleanupLoop(_, _, _)
CleanupLoop(ub, items, name) ==
    IF items = <<>> THEN [used_by |-> ub, exc |-> "None"]
    ELSE LET r == UsedByRemove(ub, Head(items), name)
         IN  IF r.exc # "None" THEN r ELSE CleanupLoop(r.used_by, Tail(items), name)

\* add_package, line 88: the test that guards the reverse-lookup append
AppendGuard(ub, x, name) == name \notin DOMAIN ub

\* add_package, lines 86-89
RECURSIVE ReverseLoop(_, _, _)
ReverseLoop(ub, xs, name) ==
    IF xs = <<>> THEN [used_by |-> ub, exc |-> "None"]
    ELSE IF AppendGuard(ub, Head(xs), name)
         THEN LET r == UsedByAppend(ub, Head(xs), name)
              IN  IF r.exc # "None" THEN r ELSE ReverseLoop(r.used_by, Tail(xs), name)
         ELSE ReverseLoop(ub, Tail(xs), name)

\* variant of lines 92-94 that leaves out the used_by entry of a new package
StorePackage_ForwardOnly(deps, ub, package) ==
    [dependencies |-> DictSet(deps, package.name, package.deps), used_by |-> ub]

\* add_package, lines 92-94
StorePackage(deps, ub, package) ==
    [dependencies |-> DictSet(deps, package.name, package.deps),
     used_by |-> IF package.name \notin DOMAIN ub THEN DictSet(ub, package.name, <<>>) ELSE ub]

\* add_package: ret is "Ok" (the name is returned), "Refused" (None is
\* returned) or the exception that left the method
add_package(deps, ub, package) ==
    IF DependenciesUnmet(deps, package)
    THEN [dependencies |-> deps, used_by |-> ub, ret |-> "Refused"]
    ELSE LET prev    == IF package.name \in DOMAIN deps THEN deps[package.name] ELSE <<>>
             cleaned == IF prev # <<>>
                        THEN CleanupLoop(ub, StaleItems(prev, package), package.name)
                        ELSE [used_by |-> ub, exc |-> "None"]
         IN  IF cleaned.exc # "None"
             THEN [dependencies |-> deps, used_by |-> cleaned.used_by, ret |-> cleaned.exc]
             ELSE LET linked == ReverseLoop(cleaned.used_by, package.deps, package.name)
                  IN  IF linked.exc # "None"
                      THEN [dependencies |-> deps, used_by |-> linked.used_by, ret |-> linked.exc]
                      ELSE LET stored == StorePackage(deps, linked.used_by, package)
                           IN  [dependencies |-> stored.dependencies,
                                used_by |-> stored.used_by, ret |-> "Ok"]

\* remove_package, lines 119-121
RECURSIVE ClearLoop(_, _, _)
ClearLoop(ub, val, key) ==
    IF val = <<>> THEN [used_by |-> ub, exc |-> "None"]
    ELSE LET r == UsedByRemove(ub, Head(val), key)
         IN  IF r.exc # "None" THEN r ELSE ClearLoop(r.used_by, Tail(val), key)

\* variant of lines 124-125 that pops the reverse map only
PopPackage_ReverseOnly(deps, ub, key) ==
    [dependencies |-> deps, used_by |-> DictPop(ub, key)]

\* remove_package, lines 124-125
PopPackage(deps, ub, key) ==
    [dependencies |-> DictPop(deps, key), used_by |-> DictPop(ub, key)]

\* remove_package, lines 115-116: used = self.used_by.get(key, None); not used
NotUsed(ub, key) == key \notin DOMAIN ub \/ ub[key] = <<>>

\* remove_package, lines 109-112: a package that is not found counts as removed
remove_package(deps, ub, key) ==
    IF find_package(deps, key) = "Absent"
    THEN [dependencies |-> deps, used_by |-> ub, ret |-> "Ok"]
    ELSE IF NotUsed(ub, key)
         THEN LET cleared == ClearLoop(ub, deps[key], key)
              IN  IF cleared.exc # "None"
                  THEN [dependencies |-> deps, used_by |-> cleared.used_by, ret |-> cleared.exc]
                  ELSE LET popped == PopPackage(deps, cleared.used_by, key)
                       IN  [dependencies |-> popped.dependencies,
                            used_by |-> popped.used_by, ret |-> "Ok"]
         ELSE [dependencies |-> deps, used_by |-> ub, ret |-> "Refused"]

\* ------------------------------------------------------ TCPClientHandler
\* variant of lines 98-130 that keeps the optimistic reply when the store
\* refuses
ResponseFor_Optimistic(ret) ==
    IF ret \in {"Ok", "Present", "Refused"} THEN RESPONSE_OK
    ELSE IF ret = "Absent" THEN RESPONSE_FAIL
    ELSE RESPONSE_ERROR

\* process_request, lines 98-130: the reply for what the store call gave
ResponseFor(ret) ==
    IF ret \in {"Ok", "Present"} THEN RESPONSE_OK
    ELSE IF ret \in {"Refused", "Absent"} THEN RESPONSE_FAIL
    ELSE RESPONSE_ERROR

\* the lists of used_by stay within the model's bound
WithinBound(ub) == \A x \in DOMAIN ub : Len(ub[x]) <= MaxUsedBy

Init ==
    /\ dependencies = EmptyDict
    /\ used_by = EmptyDict
    /\ old_dependencies = EmptyDict
    /\ old_used_by = EmptyDict
    /\ request = [cmd |-> "NONE", name |-> "", deps |-> <<>>]
    /\ result = "None"
    /\ response = "None"
    /\ data = <<>>
    /\ sentBytes = <<>>
    /\ pos = 0
    /\ peer = "open"
    /\ hpc = "recv"
    /\ out = <<>>
    /\ lock = "free"
    /\ threads = [t \in Threads |-> IdleThread]

\* process_request for INDEX|name|deps
Index(name, deps) ==
    LET req == [cmd |-> CMD_INDEX, name |-> name, deps |-> deps]
        r   == add_package(dependencies, used_by, req)
    IN  /\ WithinBound(r.used_by)
        /\ request' = req
        /\ old_dependencies' = dependencies
        /\ old_used_by' = used_by
        /\ dependencies' = r.dependencies
        /\ used_by' = r.used_by
        /\ result' = r.ret
        /\ response' = ResponseFor(r.ret)

\* process_request for REMOVE|name|
Remove(name) ==
    LET req == [cmd |-> CMD_REMOVE, name |-> name, deps |-> <<>>]
        r   == remove_package(dependencies, used_by, name)
    IN  /\ request' = req
        /\ old_dependencies' = dependencies
        /\ old_used_by' = used_by
        /\ dependencies' = r.dependencies
        /\ used_by' = r.used_by
        /\ result' = r.ret
        /\ response' = ResponseFor(r.ret)

\* process_request for QUERY|name|
Query(name) ==
    LET req == [cmd |-> CMD_QUERY, name |-> name, deps |-> <<>>]
        r   == find_package(dependencies, name)
    IN  /\ request' = req
        /\ old_dependencies' = dependencies
        /\ old_used_by' = used_by
        /\ UNCHANGED <<dependencies, used_by>>
        /\ result' = r
        /\ response' = ResponseFor(r)

Next ==
    \/ \E name \in Names, deps \in DepLists : Index(name, deps) /\ UNCHANGED otherVars
    \/ \E name \in Names : Remove(name) /\ UNCHANGED otherVars
    \/ \E name \in Names : Query(name) /\ UNCHANGED otherVars

Spec == Init /\ [][Next]_vars

TypeOK ==
    /\ DOMAIN dependencies \subseteq Names
    /\ DOMAIN used_by \subseteq Names
    /\ \A p \in DOMAIN dependencies : dependencies[p] \in DepLists
    /\ \A p \in DOMAIN used_by : Len(used_by[p]) <= MaxUsedBy
    /\ result \in {"None", "Ok", "Refused", "Present", "Absent", "KeyError", "ValueError"}
    /\ response \in {"None", RESPONSE_OK, RESPONSE_FAIL, RESPONSE_ERROR}

\* ---- the store when no INDEX names a package that is already indexed
\* the package names of this specification
FreshNames == {"a", "b", "c"}
FreshDepLists ==
    {<<>>} \cup {<<x>> : x \in FreshNames} \cup {<<x, y>> : x \in FreshNames, y \in FreshNames}

\* process_request for INDEX|name|deps of a package that is not indexed:
\* in add_package prev is None and lines 79-83 are skipped
IndexFresh(name, deps) ==
    /\ name \notin DOMAIN dependencies
    /\ Index(name, deps)

NextNoUpsert ==
    \/ \E name \in FreshNames, deps \in FreshDepLists :
          IndexFresh(name, deps) /\ UNCHANGED otherVars
    \/ \E name \in FreshNames : Remove(name) /\ UNCHANGED otherVars
    \/ \E name \in FreshNames : Query(name) /\ UNCHANGED otherVars

SpecNoUpsert == Init /\ [][NextNoUpsert]_vars

\* ------------------------------------------------------------ DataPackage
\* Strings that reach the parser are lists of one-character strings.
NL == "\n"
BAR == "|"
COMMA == ","

\* the characters of the three command literals (lines 19-21)
CmdText(c) ==
    CASE c = CMD_INDEX  -> <<"I", "N", "D", "E", "X">>
      [] c = CMD_REMOVE -> <<"R", "E", "M", "O", "V", "E">>
      [] c = CMD_QUERY  -> <<"Q", "U", "E", "R", "Y">>

\* line 24
VALID_COMMANDS == {CMD_INDEX, CMD_REMOVE, CMD_QUERY}

\* index of the first ch in s at or after position from, 0 when there is none
FirstAt(s, ch, from) ==
    IF \E i \in from..Len(s) : s[i] = ch
    THEN CHOOSE i \in from..Len(s) : s[i] = ch /\ \A j \in from..(i - 1) : s[j] # ch
    ELSE 0

\* request_regex.match (line 16): (?P<cmd>[^\|]+)\|(?P<name>[^\|]+)\|(?P<depends>.*)
\* anchored at the start only; [^\|] takes newlines too, `.` stops before one
request_regex(s) ==
    LET b1 == FirstAt(s, BAR, 1)
        b2 == IF b1 = 0 THEN 0 ELSE FirstAt(s, BAR, b1 + 1)
        nl == IF b2 = 0 THEN 0 ELSE FirstAt(s, NL, b2 + 1)
    IN  IF b1 < 2 \/ b2 < b1 + 2
        THEN [matched |-> FALSE, cmd |-> <<>>, name |-> <<>>, depends |-> <<>>]
        ELSE [matched |-> TRUE,
              cmd     |-> SubSeq(s, 1, b1 - 1),
              name    |-> SubSeq(s, b1 + 1, b2 - 1),
              depends |-> SubSeq(s, b2 + 1, IF nl = 0 THEN Len(s) ELSE nl - 1)]

\* deps.split(','), line 176: empty tokens are kept
RECURSIVE Split(_)
Split(s) ==
    LET c == FirstAt(s, COMMA, 1)
    IN  IF c = 0 THEN <<s>>
        ELSE <<SubSeq(s, 1, c - 1)>> \o Split(SubSeq(s, c + 1, Len(s)))

\* line 169: self.command not in VALID_COMMANDS
CommandValid(cmd) == \E c \in VALID_COMMANDS : cmd = CmdText(c)

\* DataPackage.__init__, lines 158-178: exc is "ValueError" when the
\* constructor raises
DataPackage(req_string) ==
    LET bad == [exc |-> "ValueError", cmd |-> "NONE", name |-> <<>>, deps |-> <<>>]
        m   == request_regex(req_string)
    IN  IF req_string = <<>> THEN bad
        ELSE IF ~m.matched THEN bad
        ELSE IF ~CommandValid(m.cmd) THEN bad
        ELSE [exc  |-> "None",
              cmd  |-> CHOOSE c \in VALID_COMMANDS : m.cmd = CmdText(c),
              name |-> m.name,
              deps |-> IF m.depends # <<>> THEN Split(m.depends) ELSE <<>>]

\* ---- the parser on its own: the input is drawn from the lines that can be
\* ---- put together from at most MaxTokens tokens
Tokens == {CmdText(CMD_INDEX), CmdText(CMD_QUERY), <<"I", "N", "D", "e", "X">>,
           <<BAR>>, <<COMMA>>, <<"a">>, <<NL>>}

RECURSIVE LinesUpTo(_)
LinesUpTo(n) ==
    IF n = 0 THEN {<<>>}
    ELSE LET shorter == LinesUpTo(n - 1)
         IN  shorter \cup {l \o t : l \in shorter, t \in Tokens}

InitParse ==
    /\ dependencies = EmptyDict
    /\ used_by = EmptyDict
    /\ old_dependencies = EmptyDict
    /\ old_used_by = EmptyDict
    /\ request = [cmd |-> "NONE", name |-> <<>>, deps |-> <<>>]
    /\ result = "None"
    /\ response = "None"
    /\ data \in LinesUpTo(MaxTokens)
    /\ sentBytes = <<>>
    /\ pos = 0
    /\ peer = "open"
    /\ hpc = "process"
    /\ out = <<>>
    /\ lock = "free"
    /\ threads = [t \in Threads |-> IdleThread]

\* DataPackage(data), as the self-test of lines 215-228 calls it
Parse ==
    /\ result = "None"
    /\ LET p == DataPackage(data)
       IN  /\ request' = [cmd |-> p.cmd, name |-> p.name, deps |-> p.deps]
           /\ result' = IF p.exc = "None" THEN "Parsed" ELSE "Malformed"
    /\ UNCHANGED <<dependencies, used_by, old_dependencies, old_used_by, response, data>>
    /\ UNCHANGED <<connVars, concVars>>

NextParse == Parse

SpecParse == InitParse /\ [][NextParse]_vars

\* ------------------------------------------------ TCPClientHandler.handle
\* line 80: self.request.recv(2048)
RecvSize == 2048

\* process_request(data), lines 96-130: parse, dispatch on the command, turn
\* what the store returned or raised into the reply
process_request(deps, ub, d) ==
    LET p   == DataPackage(d)
        req == [cmd |-> p.cmd, name |-> p.name, deps |-> p.deps]
    IN  IF p.exc # "None"
        THEN [dependencies |-> deps, used_by |-> ub, request |-> req,
              result |-> "Malformed", response |-> ResponseFor("Malformed")]
        ELSE IF p.cmd = CMD_QUERY
        THEN LET r == find_package(deps, p.name)
             IN  [dependencies |-> deps, used_by |-> ub, request |-> req,
                  result |-> r, response |-> ResponseFor(r)]
        ELSE IF p.cmd = CMD_REMOVE
        THEN LET r == remove_package(deps, ub, p.name)
             IN  [dependencies |-> r.dependencies, used_by |-> r.used_by, request |-> req,
                  result |-> r.ret, response |-> ResponseFor(r.ret)]
        ELSE LET r == add_package(deps, ub, req)
             IN  [dependencies |-> r.dependencies, used_by |-> r.used_by, request |-> req,
                  result |-> r.ret, response |-> ResponseFor(r.ret)]

\* what one client may write in one call: three whole frames, a frame whose
\* name holds a comma, and a frame that lacks its newline
Chars(cmd, rest) == CmdText(cmd) \o rest
Messages ==
    {Chars(CMD_INDEX, <<BAR, "a", BAR, NL>>),
     Chars(CMD_QUERY, <<BAR, "a", BAR, NL>>),
     Chars(CMD_REMOVE, <<BAR, "a", BAR, NL>>),
     Chars(CMD_INDEX, <<BAR, "a", COMMA, "b", BAR, NL>>),
     Chars(CMD_INDEX, <<BAR, "a", BAR>>)}

InitConn ==
    /\ dependencies = EmptyDict
    /\ used_by = EmptyDict
    /\ old_dependencies = EmptyDict
    /\ old_used_by = EmptyDict
    /\ request = [cmd |-> "NONE", name |-> <<>>, deps |-> <<>>]
    /\ result = "None"
    /\ response = "None"
    /\ data = <<>>
    /\ sentBytes = <<>>
    /\ pos = 0
    /\ peer = "open"
    /\ hpc = "recv"
    /\ out = <<>>
    /\ lock = "free"
    /\ threads = [t \in Threads |-> IdleThread]

\* the client writes msg (test_client.py line 41: sock.sendall)
ClientSend(msg) ==
    /\ peer = "open"
    /\ Len(sentBytes) + Len(msg) <= MaxWire
    /\ sentBytes' = sentBytes \o msg
    /\ UNCHANGED <<storeVars, data, pos, peer, hpc, out, concVars>>

\* the client closes its socket (test_client.py line 45)
ClientClose ==
    /\ peer = "open"
    /\ peer' = "closed"
    /\ UNCHANGED <<storeVars, data, sentBytes, pos, hpc, out, concVars>>

\* line 80, bytes pending: recv returns any non-empty prefix of them, at
\* most RecvSize long
Recv(n) ==
    /\ hpc = "recv"
    /\ n >= 1
    /\ n <= Len(sentBytes) - pos
    /\ n <= RecvSize
    /\ data' = SubSeq(sentBytes, pos + 1, pos + n)
    /\ pos' = pos + n
    /\ hpc' = "process"
    /\ UNCHANGED <<storeVars, sentBytes, peer, out, concVars>>

\* line 80, nothing pending and the peer has closed: recv returns ''
RecvEof ==
    /\ hpc = "recv"
    /\ pos = Len(sentBytes)
    /\ peer = "closed"
    /\ data' = <<>>
    /\ hpc' = "process"
    /\ UNCHANGED <<storeVars, sentBytes, pos, peer, out, concVars>>

\* line 84: reply = self.process_request(data)
Process ==
    /\ hpc = "process"
    /\ LET r == process_request(dependencies, used_by, data)
       IN  /\ old_dependencies' = dependencies
           /\ old_used_by' = used_by
           /\ dependencies' = r.dependencies
           /\ used_by' = r.used_by
           /\ request' = r.request
           /\ result' = r.result
           /\ response' = r.response
    /\ hpc' = "send"
    /\ UNCHANGED <<data, sentBytes, pos, peer, out, concVars>>

\* lines 88-89: the reply is never None, so it is always sent; the loop
\* condition `data is not None` (line 78) holds for every string
Send ==
    /\ hpc = "send"
    /\ Len(out) < MaxOut
    /\ out' = Append(out, response)
    /\ hpc' = "recv"
    /\ UNCHANGED <<storeVars, data, sentBytes, pos, peer, concVars>>

\* lines 89-94: a send to a peer that has closed may raise; the handler
\* then closes its socket and leaves the loop
SendFails ==
    /\ hpc = "send"
    /\ peer = "closed"
    /\ hpc' = "closed"
    /\ UNCHANGED <<storeVars, data, sentBytes, pos, peer, out, concVars>>

NextConn ==
    \/ \E msg \in Messages : ClientSend(msg)
    \/ ClientClose
    \/ \E n \in 1..MaxWire : Recv(n)
    \/ RecvEof
    \/ Process
    \/ Send
    \/ SendFails

SpecConn == InitConn /\ [][NextConn]_vars

\* ------------------------------------------- worker threads and the lock
\* Several TCPClientHandler threads call the one data_store (line 68). Here
\* every access of a map is a step of its own, so that only the lock keeps
\* the operations apart.

\* the requests the threads issue
ConcDepLists == {<<>>} \cup {<<x>> : x \in Names}
ConcRequests ==
    {[cmd |-> CMD_INDEX, name |-> n, deps |-> d] : n \in Names, d \in ConcDepLists}
      \cup {[cmd |-> c, name |-> n, deps |-> <<>>] : c \in {CMD_REMOVE, CMD_QUERY}, n \in Names}

\* variant of line 45 in which find_package takes the lock as already held
LockedDefault_True == TRUE

\* line 45: find_package(self, key, locked=False)
LockedDefault == FALSE

\* line 109: val = self.find_package(key, True)
NestedLocked == TRUE

InitConc ==
    /\ dependencies = EmptyDict
    /\ used_by = EmptyDict
    /\ old_dependencies = EmptyDict
    /\ old_used_by = EmptyDict
    /\ request = [cmd |-> "NONE", name |-> "", deps |-> <<>>]
    /\ result = "None"
    /\ response = "None"
    /\ data = <<>>
    /\ sentBytes = <<>>
    /\ pos = 0
    /\ peer = "open"
    /\ hpc = "recv"
    /\ out = <<>>
    /\ lock = "free"
    /\ threads = [t \in Threads |-> IdleThread]

ConcFrame == UNCHANGED <<old_dependencies, old_used_by, request, result, response,
                         data, connVars>>

\* the thread goes to pc, with its other locals changed as given
Goto(t, pc, items, ret) ==
    threads' = [threads EXCEPT ![t].pc = pc, ![t].items = items, ![t].ret = ret]

\* process_request, lines 101-114: the thread has parsed req and calls the
\* store operation of its command
Begin(t, req) ==
    /\ threads[t].pc = "idle"
    /\ threads' = [threads EXCEPT ![t] = [IdleThread EXCEPT !.pc = "acquire", !.req = req]]
    /\ UNCHANGED <<dependencies, used_by, lock>>
    /\ ConcFrame

\* lines 73 and 108: `with self.__data_lock` blocks until the lock is free
Acquire(t) ==
    /\ threads[t].pc = "acquire"
    /\ threads[t].req.cmd \in {CMD_INDEX, CMD_REMOVE}
    /\ lock = "free"
    /\ lock' = t
    /\ threads' = [threads EXCEPT
                     ![t].pc = IF threads[t].req.cmd = CMD_INDEX THEN "a_check" ELSE "r_find",
                     ![t].snapD = dependencies, ![t].snapU = used_by]
    /\ UNCHANGED <<dependencies, used_by>>
    /\ ConcFrame

\* find_package called by process_request, lines 57-58: acquire unless locked
FindAcquire(t) ==
    /\ threads[t].pc = "acquire"
    /\ threads[t].req.cmd = CMD_QUERY
    /\ IF LockedDefault THEN UNCHANGED lock ELSE lock = "free" /\ lock' = t
    /\ threads' = [threads EXCEPT ![t].pc = "f_get",
                                  ![t].snapD = dependencies, ![t].snapU = used_by]
    /\ UNCHANGED <<dependencies, used_by>>
    /\ ConcFrame

\* find_package, line 59
FindGet(t) ==
    /\ threads[t].pc = "f_get"
    /\ Goto(t, "f_release", <<>>, find_package(dependencies, threads[t].req.name))
    /\ UNCHANGED <<dependencies, used_by, lock>>
    /\ ConcFrame

\* find_package, lines 60-62: release unless locked; process_request has
\* its reply
FindRelease(t) ==
    /\ threads[t].pc = "f_release"
    /\ IF LockedDefault THEN UNCHANGED lock ELSE lock' = "free"
    /\ threads' = [threads EXCEPT ![t] = IdleThread]
    /\ UNCHANGED <<dependencies, used_by>>
    /\ ConcFrame

\* add_package, lines 74-81: the dependency test, prev and the stale items
AddCheck(t) ==
    /\ threads[t].pc = "a_check"
    /\ LET req  == threads[t].req
           prev == IF req.name \in DOMAIN dependencies THEN dependencies[req.name] ELSE <<>>
       IN  IF DependenciesUnmet(dependencies, req)
           THEN Goto(t, "release", <<>>, "Refused")
           ELSE Goto(t, "a_cleanup", IF prev # <<>> THEN StaleItems(prev, req) ELSE <<>>, "None")
    /\ UNCHANGED <<dependencies, used_by, lock>>
    /\ ConcFrame

\* add_package, lines 81-83: one turn of the cleanup loop
AddCleanup(t) ==
    /\ threads[t].pc = "a_cleanup"
    /\ LET items == threads[t].items
           req   == threads[t].req
       IN  IF items = <<>>
           THEN Goto(t, "a_link", req.deps, "None") /\ UNCHANGED used_by
           ELSE LET r == UsedByRemove(used_by, Head(items), req.name)
                IN  /\ used_by' = r.used_by
                    /\ IF r.exc # "None"
                       THEN Goto(t, "release", <<>>, r.exc)
                       ELSE Goto(t, "a_cleanup", Tail(items), "None")
    /\ UNCHANGED <<dependencies, lock>>
    /\ ConcFrame

\* add_package, lines 86-89: one turn of the reverse-lookup loop
AddLink(t) ==
    /\ threads[t].pc = "a_link"
    /\ LET xs  == threads[t].items
           req == threads[t].req
       IN  IF xs = <<>>
           THEN Goto(t, "a_store", <<>>, "None") /\ UNCHANGED used_by
           ELSE IF AppendGuard(used_by, Head(xs), req.name)
           THEN LET r == UsedByAppend(used_by, Head(xs), req.name)
                IN  /\ WithinBound(r.used_by)
                    /\ used_by' = r.used_by
                    /\ IF r.exc # "None"
                       THEN Goto(t, "release", <<>>, r.exc)
                       ELSE Goto(t, "a_link", Tail(xs), "None")
           ELSE Goto(t, "a_link", Tail(xs), "None") /\ UNCHANGED used_by
    /\ UNCHANGED <<dependencies, lock>>
    /\ ConcFrame

\* add_package, line 92
AddStoreDeps(t) ==
    /\ threads[t].pc = "a_store"
    /\ dependencies' = StorePackage(dependencies, used_by, threads[t].req).dependencies
    /\ Goto(t, "a_store_ub", <<>>, "None")
    /\ UNCHANGED <<used_by, lock>>
    /\ ConcFrame

\* add_package, lines 93-95
AddStoreUsedBy(t) ==
    /\ threads[t].pc = "a_store_ub"
    /\ used_by' = StorePackage(dependencies, used_by, threads[t].req).used_by
    /\ Goto(t, "release", <<>>, "Ok")
    /\ UNCHANGED <<dependencies, lock>>
    /\ ConcFrame

\* remove_package, lines 109-112: the nested find_package, told that the
\* lock is held; it would block on the lock otherwise
RemoveFind(t) ==
    /\ threads[t].pc = "r_find"
    /\ NestedLocked \/ lock = "free"
    /\ IF find_package(dependencies, threads[t].req.name) = "Absent"
       THEN Goto(t, "release", <<>>, "Ok")
       ELSE Goto(t, "r_used", dependencies[threads[t].req.name], "None")
    /\ UNCHANGED <<dependencies, used_by, lock>>
    /\ ConcFrame

\* remove_package, lines 115-116 and 127-129
RemoveUsed(t) ==
    /\ threads[t].pc = "r_used"
    /\ LET key == threads[t].req.name
       IN  IF NotUsed(used_by, key)
           THEN Goto(t, "r_clear", threads[t].items, "None")
           ELSE Goto(t, "release", <<>>, "Refused")
    /\ UNCHANGED <<dependencies, used_by, lock>>
    /\ ConcFrame

\* remove_package, lines 119-121: one turn of the loop
RemoveClear(t) ==
    /\ threads[t].pc = "r_clear"
    /\ LET val == threads[t].items
           key == threads[t].req.name
       IN  IF val = <<>>
           THEN Goto(t, "r_pop", <<>>, "None") /\ UNCHANGED used_by
           ELSE LET r == UsedByRemove(used_by, Head(val), key)
                IN  /\ used_by' = r.used_by
                    /\ IF r.exc # "None"
                       THEN Goto(t, "release", <<>>, r.exc)
                       ELSE Goto(t, "r_clear", Tail(val), "None")
    /\ UNCHANGED <<dependencies, lock>>
    /\ ConcFrame

\* remove_package, line 124
RemovePopDeps(t) ==
    /\ threads[t].pc = "r_pop"
    /\ dependencies' = PopPackage(dependencies, used_by, threads[t].req.name).dependencies
    /\ Goto(t, "r_pop_ub", <<>>, "None")
    /\ UNCHANGED <<used_by, lock>>
    /\ ConcFrame

\* remove_package, lines 125-126
RemovePopUsedBy(t) ==
    /\ threads[t].pc = "r_pop_ub"
    /\ used_by' = PopPackage(dependencies, used_by, threads[t].req.name).used_by
    /\ Goto(t, "release", <<>>, "Ok")
    /\ UNCHANGED <<dependencies, lock>>
    /\ ConcFrame

\* variant of the `with` exit that keeps the lock when the body raised
ReleasedOnExit_ReturnOnly(ret) == ret \notin {"KeyError", "ValueError"}

\* the exit of `with self.__data_lock` (lines 73, 108): the lock is released
\* on return and on an exception alike
ReleasedOnExit(ret) == TRUE

\* leaving add_package or remove_package by return or by an exception
Release(t) ==
    /\ threads[t].pc = "release"
    /\ lock' = IF ReleasedOnExit(threads[t].ret) THEN "free" ELSE lock
    /\ threads' = [threads EXCEPT ![t] = IdleThread]
    /\ UNCHANGED <<dependencies, used_by>>
    /\ ConcFrame

ThreadStep(t) ==
    \/ FindGet(t)
    \/ FindRelease(t)
    \/ AddCheck(t)
    \/ AddCleanup(t)
    \/ AddLink(t)
    \/ AddStoreDeps(t)
    \/ AddStoreUsedBy(t)
    \/ RemoveFind(t)
    \/ RemoveUsed(t)
    \/ RemoveClear(t)
    \/ RemovePopDeps(t)
    \/ RemovePopUsedBy(t)
    \/ Release(t)

NextConc ==
    \/ \E t \in Threads, req \in ConcRequests : Begin(t, req)
    \/ \E t \in Threads : Acquire(t)
    \/ \E t \in Threads : FindAcquire(t)
    \/ \E t \in Threads : ThreadStep(t)

SpecConc == InitConc /\ [][NextConc]_vars

\* a running thread takes its next step; a thread that waits for the lock
\* gets it if the lock is free again and again
SpecConcFair ==
    /\ InitConc
    /\ [][NextConc]_vars
    /\ \A t \in Threads : WF_vars(ThreadStep(t))
    /\ \A t \in Threads : SF_vars(Acquire(t) \/ FindAcquire(t))

\* ------------------------------------------------------------ properties
Raised == result \in {"KeyError", "ValueError"}
MapsUnchanged == dependencies = old_dependencies /\ used_by = old_used_by
NoDuplicates(lst) == \A i, j \in 1..Len(lst) : lst[i] = lst[j] => i = j
IsDependency(d, p) == p \in DOMAIN dependencies /\ InList(d, dependencies[p])
IsDependent(p, d) == d \in DOMAIN used_by /\ InList(p, used_by[d])

\* C1: referential integrity: every dependency of every indexed package is
\* itself indexed, and a REMOVE of a present package is never answered OK
\* while an indexed package still lists it as a dependency.
C1_ReferentialIntegrity ==
    /\ \A p \in DOMAIN dependencies :
         \A i \in 1..Len(dependencies[p]) : dependencies[p][i] \in DOMAIN dependencies
    /\ (request.cmd = CMD_REMOVE /\ request.name \in DOMAIN old_dependencies
            /\ response = RESPONSE_OK)
         => ~\E p \in DOMAIN old_dependencies :
                p # request.name /\ InList(request.name, old_dependencies[p])

\* C2: reverse consistency: d is in the dependency list of p exactly when p
\* is in the used_by list of d, after every store operation.
C2_ReverseConsistency ==
    \A p \in Names, d \in Names : IsDependency(d, p) <=> IsDependent(p, d)

\* C3: store operations never throw: every call returns one of its two
\* result values and no well-formed request is answered ERROR.
C3_StoreNeverThrows ==
    /\ ~Raised
    /\ response # RESPONSE_ERROR
    /\ request.cmd \in {CMD_INDEX, CMD_REMOVE} => result \in {"Ok", "Refused"}
    /\ request.cmd = CMD_QUERY => result \in {"Present", "Absent"}

\* C4: an INDEX whose dependency list holds the package's own name is
\* refused without any change of state, so no package is in its own
\* dependency list or in its own used_by list.
C4_SelfDependencyRefused ==
    /\ (request.cmd = CMD_INDEX /\ InList(request.name, request.deps))
         => (result = "Refused" /\ response = RESPONSE_FAIL /\ MapsUnchanged)
    /\ \A p \in Names : ~IsDependency(p, p) /\ ~IsDependent(p, p)

\* C5: set semantics: no dependency list and no used_by list holds the same
\* name twice.
C5_SetSemantics ==
    /\ \A p \in DOMAIN dependencies : NoDuplicates(dependencies[p])
    /\ \A p \in DOMAIN used_by : NoDuplicates(used_by[p])

\* C6: key symmetry: a name is a key of dependencies exactly when it is a
\* key of used_by, after every store operation, also one that raised
\* part-way.
C6_KeySymmetry == DOMAIN dependencies = DOMAIN used_by

\* C6 witness: a store operation raised after it had already changed used_by.
C6_Witness_PartialFailure ==
    /\ Raised
    /\ used_by # old_used_by
    /\ DOMAIN dependencies # {}

\* C7: an INDEX with a dependency that is not indexed is refused (FAIL) and
\* leaves both maps exactly as they were, whether or not the package itself
\* was already indexed.
C7_UnmetDependencyRefused ==
    (request.cmd = CMD_INDEX
        /\ \E i \in 1..Len(request.deps) : request.deps[i] \notin DOMAIN old_dependencies)
      => (result = "Refused" /\ response = RESPONSE_FAIL /\ MapsUnchanged)

\* C7 witness: an already indexed package was re-indexed with a dependency
\* that is not indexed, and was refused.
C7_Witness_RefusedReindex ==
    /\ request.cmd = CMD_INDEX
    /\ request.name \in DOMAIN old_dependencies
    /\ \E i \in 1..Len(request.deps) : request.deps[i] \notin DOMAIN old_dependencies
    /\ result = "Refused"

\* C8: REMOVE of a present package with a non-empty used_by list is refused
\* and changes nothing; REMOVE of a present package with an empty used_by
\* list answers OK, deletes the package from both maps, takes it out of the
\* used_by list of each of its dependencies and leaves every other entry as
\* it was.
C8_RemoveEffect ==
    (request.cmd = CMD_REMOVE /\ request.name \in DOMAIN old_dependencies)
      => LET key == request.name
             val == old_dependencies[key]
         IN  IF key \in DOMAIN old_used_by /\ old_used_by[key] # <<>>
             THEN result = "Refused" /\ response = RESPONSE_FAIL /\ MapsUnchanged
             ELSE /\ result = "Ok"
                  /\ response = RESPONSE_OK
                  /\ DOMAIN dependencies = (DOMAIN old_dependencies) \ {key}
                  /\ DOMAIN used_by = (DOMAIN old_used_by) \ {key}
                  /\ \A p \in DOMAIN dependencies : dependencies[p] = old_dependencies[p]
                  /\ \A d \in DOMAIN used_by :
                       IF InList(d, val)
                       THEN ~InList(key, used_by[d])
                       ELSE used_by[d] = old_used_by[d]

\* C9: index idempotence: when all declared dependencies of p are indexed,
\* INDEX p with that list answers OK, and the same INDEX sent again answers
\* OK and leaves the store as the first one left it.
C9_IndexIdempotent ==
    (request.cmd = CMD_INDEX
        /\ \A i \in 1..Len(request.deps) : request.deps[i] \in DOMAIN old_dependencies)
      => /\ result = "Ok"
         /\ LET again == add_package(dependencies, used_by, request)
            IN  /\ again.ret = "Ok"
                /\ again.dependencies = dependencies
                /\ again.used_by = used_by

\* C10: remove idempotence: REMOVE of a package that is not indexed answers
\* OK and changes nothing; so once REMOVE p has answered OK, a REMOVE p
\* that follows at once answers OK too and leaves the store unchanged.
C10_RemoveIdempotent ==
    /\ [](request.cmd = CMD_REMOVE
            => /\ request.name \notin DOMAIN old_dependencies
                    => (result = "Ok" /\ response = RESPONSE_OK /\ MapsUnchanged)
               /\ result = "Ok" => request.name \notin DOMAIN dependencies)
    /\ [][(request.cmd = CMD_REMOVE /\ result = "Ok"
             /\ request'.cmd = CMD_REMOVE /\ request'.name = request.name)
            => (result' = "Ok" /\ response' = RESPONSE_OK
                  /\ UNCHANGED <<dependencies, used_by>>)]_vars

\* C10 witness: a REMOVE named a package that was not indexed, while another
\* package was, and answered OK.
C10_Witness_RemoveAbsent ==
    /\ request.cmd = CMD_REMOVE
    /\ request.name \notin DOMAIN old_dependencies
    /\ result = "Ok"
    /\ DOMAIN old_dependencies # {}

\* C11: round trip on one connection: a QUERY x that directly follows an
\* INDEX x answered OK is answered OK (also when x has no dependencies), a
\* QUERY x that directly follows a REMOVE x answered OK is answered FAIL,
\* and a QUERY never changes the store.
C11_RoundTrip ==
    /\ [](/\ (request.cmd = CMD_INDEX /\ response = RESPONSE_OK)
                => request.name \in DOMAIN dependencies
          /\ (request.cmd = CMD_REMOVE /\ response = RESPONSE_OK)
                => request.name \notin DOMAIN dependencies
          /\ request.cmd = CMD_QUERY
                => /\ MapsUnchanged
                   /\ response = RESPONSE_OK <=> request.name \in DOMAIN old_dependencies
                   /\ response = RESPONSE_FAIL <=> request.name \notin DOMAIN old_dependencies)
    /\ [][(request'.cmd = CMD_QUERY /\ request'.name = request.name)
            => /\ (request.cmd = CMD_INDEX /\ response = RESPONSE_OK)
                    => response' = RESPONSE_OK
               /\ (request.cmd = CMD_REMOVE /\ response = RESPONSE_OK)
                    => response' = RESPONSE_FAIL
               /\ UNCHANGED <<dependencies, used_by>>]_vars

\* C11 witness: a QUERY found a package that is indexed with an empty
\* dependency list and answered OK.
C11_Witness_QueryEmptyDeps ==
    /\ request.cmd = CMD_QUERY
    /\ request.name \in DOMAIN dependencies
    /\ dependencies[request.name] = <<>>
    /\ response = RESPONSE_OK

\* the line grammar the parser is specified against: command|name|deps
IsName(s) == s # <<>> /\ \A i \in 1..Len(s) : s[i] \notin {BAR, COMMA, NL}
IsDepList(s) ==
    \/ s = <<>>
    \/ /\ \A i \in 1..Len(s) : s[i] \notin {BAR, NL}
       /\ s[1] # COMMA
       /\ s[Len(s)] # COMMA
       /\ \A i \in 1..(Len(s) - 1) : ~(s[i] = COMMA /\ s[i + 1] = COMMA)
MatchesGrammar(line) ==
    \E c \in {CMD_INDEX, CMD_REMOVE, CMD_QUERY} :
        LET n == Len(CmdText(c))
        IN  /\ Len(line) >= n + 3
            /\ SubSeq(line, 1, n) = CmdText(c)
            /\ line[n + 1] = BAR
            /\ \E k \in (n + 3)..Len(line) :
                  /\ line[k] = BAR
                  /\ IsName(SubSeq(line, n + 2, k - 1))
                  /\ IsDepList(SubSeq(line, k + 1, Len(line)))

\* C16: parser acceptance: DataPackage(line) yields a request exactly when
\* the line matches the grammar command|name|deps (exact uppercase command,
\* non-empty name without '|', ',' or newline, deps empty or a
\* comma-separated list of such names); every other line is malformed.
C16_ParserAcceptance ==
    /\ result = "Parsed" => MatchesGrammar(data)
    /\ result = "Malformed" => ~MatchesGrammar(data)

\* the newline-terminated frames of a byte string, each with its newline
RECURSIVE Frames(_)
Frames(bytes) ==
    LET nl == FirstAt(bytes, NL, 1)
    IN  IF nl = 0 THEN <<>>
        ELSE <<SubSeq(bytes, 1, nl)>> \o Frames(SubSeq(bytes, nl + 1, Len(bytes)))

\* the replies to a list of frames handed to process_request one by one
RECURSIVE Answers(_, _, _)
Answers(frames, deps, ub) ==
    IF frames = <<>> THEN <<>>
    ELSE LET r == process_request(deps, ub, Head(frames))
         IN  <<r.response>> \o Answers(Tail(frames), r.dependencies, r.used_by)

\* a string without its one trailing newline
Line(d) == IF d # <<>> /\ d[Len(d)] = NL THEN SubSeq(d, 1, Len(d) - 1) ELSE d

\* exactly one frame: a newline at the end and nowhere else
IsOneFrame(d) == d # <<>> /\ FirstAt(d, NL, 1) = Len(d)

\* C12: one response per frame, in order: while the client is connected the
\* handler has written no more replies than it has received whole frames,
\* and once it has read all the client sent, the k-th reply is the answer to
\* the k-th frame, however the frames were grouped into reads.
C12_OneResponsePerFrame ==
    peer = "open"
      => /\ Len(out) <= Len(Frames(SubSeq(sentBytes, 1, pos)))
         /\ (hpc = "recv" /\ pos = Len(sentBytes))
              => out = Answers(Frames(sentBytes), EmptyDict, EmptyDict)

\* C13: response classification: INDEX and REMOVE answer OK when the store
\* returns Ok and FAIL when it returns Refused, QUERY answers OK when the
\* package is present and FAIL when it is absent, and ERROR is answered only
\* for a malformed frame or a fault inside the store (read whenever the
\* handler is not between a read and its process_request call).
C13_ResponseClassification ==
    hpc # "process" =>
    /\ request.cmd \in {CMD_INDEX, CMD_REMOVE}
         => /\ result = "Ok" <=> response = RESPONSE_OK
            /\ result = "Refused" <=> response = RESPONSE_FAIL
    /\ request.cmd = CMD_QUERY
         => /\ response = RESPONSE_OK <=> request.name \in DOMAIN old_dependencies
            /\ response = RESPONSE_FAIL <=> request.name \notin DOMAIN old_dependencies
    /\ response = RESPONSE_ERROR
         => \/ result \in {"KeyError", "ValueError"}
            \/ result = "Malformed" /\ ~MatchesGrammar(Line(data))

\* C13 witness: the store refused a REMOVE of a package that is in use and
\* the reply was FAIL.
C13_Witness_RefusedRemove ==
    /\ request.cmd = CMD_REMOVE
    /\ result = "Refused"
    /\ response = RESPONSE_FAIL
    /\ request.name \in DOMAIN dependencies

\* C14: a malformed frame is answered ERROR and does not touch the store,
\* and the handler keeps the connection open for the frames that follow.
C14_MalformedFrame ==
    /\ (hpc = "send" /\ IsOneFrame(data) /\ ~MatchesGrammar(Line(data)))
         => (response = RESPONSE_ERROR /\ MapsUnchanged)
    /\ hpc = "closed" => peer = "closed"

\* C17: a partial trailing frame is discarded: as long as nothing the client
\* sent is terminated by a newline, the store stays as it was and, while the
\* client is connected, no reply is written.
C17_PartialFrameDiscarded ==
    (\A i \in 1..Len(sentBytes) : sentBytes[i] # NL)
      => /\ dependencies = EmptyDict
         /\ used_by = EmptyDict
         /\ peer = "open" => out = <<>>

\* C18: when a read returns zero bytes the handler closes the connection and
\* leaves its loop: the empty read is not handed on as a request and no
\* further reply is written.
C18_ZeroByteReadCloses ==
    [][(hpc = "recv" /\ hpc' # "recv" /\ data' = <<>>)
          => (hpc' = "closed" /\ out' = out)]_vars

\* C20: as long as no INDEX names a package that is already indexed, after
\* every store operation both maps have the same keys, d is a dependency of
\* p exactly when p is in used_by of d, every dependency of an indexed
\* package is indexed, no package depends on itself, and no store operation
\* has raised.
C20_NoUpsertInvariants ==
    LET keys == (DOMAIN dependencies) \cup (DOMAIN used_by)
    IN  /\ DOMAIN dependencies = DOMAIN used_by
        /\ \A p \in keys, d \in keys :
              (p \in DOMAIN dependencies /\ InList(d, dependencies[p]))
                <=> (d \in DOMAIN used_by /\ InList(p, used_by[d]))
        /\ \A p \in DOMAIN dependencies :
              \A i \in 1..Len(dependencies[p]) :
                  /\ dependencies[p][i] \in DOMAIN dependencies
                  /\ dependencies[p][i] # p
        /\ \A d \in DOMAIN used_by :
              \A i \in 1..Len(used_by[d]) : used_by[d][i] \in DOMAIN dependencies
        /\ result \notin {"KeyError", "ValueError"}
        /\ response # RESPONSE_ERROR

\* C20 witness: a package indexed with a dependency has been removed again
\* while its dependency stays indexed.
C20_Witness_RemovedDependent ==
    /\ request.cmd = CMD_REMOVE
    /\ result = "Ok"
    /\ request.name \in DOMAIN old_dependencies
    /\ old_dependencies[request.name] # <<>>
    /\ DOMAIN dependencies # {}
\* the thread has made a map access of its operation and has more to make
Between(t) ==
    threads[t].pc \in {"a_cleanup", "a_link", "a_store", "a_store_ub",
                       "r_used", "r_clear", "r_pop", "r_pop_ub"}

\* the next step of the thread reads or writes a map
Accessing(t) == Between(t) \/ threads[t].pc \in {"f_get", "a_check", "r_find"}

\* what the operation of the thread gives when it runs alone on the maps it
\* found when it took the lock
Sequential(t) ==
    LET th == threads[t]
    IN  IF th.req.cmd = CMD_INDEX THEN add_package(th.snapD, th.snapU, th.req)
        ELSE IF th.req.cmd = CMD_REMOVE THEN remove_package(th.snapD, th.snapU, th.req.name)
        ELSE [dependencies |-> th.snapD, used_by |-> th.snapU,
              ret |-> find_package(th.snapD, th.req.name)]

\* C15: with several threads issuing INDEX, REMOVE and QUERY against the one
\* store, no thread is about to read or write a map while another thread is
\* between its first and its last map access; an operation that has not
\* yet touched a map finds the maps as they were when it took the lock, and a
\* finished operation leaves the maps and the result that the same operation
\* gives when run alone from there: the execution equals the sequential one
\* in the order of the lock acquisitions, and a QUERY never sees a
\* half-applied INDEX or REMOVE.
C15_Atomicity ==
    /\ \A t \in Threads : \A u \in Threads \ {t} : Between(u) => ~Accessing(t)
    /\ \A t \in Threads :
         /\ threads[t].pc \in {"f_get", "a_check", "r_find"} =>
              /\ dependencies = threads[t].snapD
              /\ used_by = threads[t].snapU
         /\ threads[t].pc \in {"release", "f_release"} =>
              /\ dependencies = Sequential(t).dependencies
              /\ used_by = Sequential(t).used_by
              /\ threads[t].ret = Sequential(t).ret

\* a QUERY is held at the lock while an INDEX has stored the package in
\* dependencies (line 92) and not yet in used_by (line 93)
C15_Witness_QueryWaitsForHalfIndex ==
    \E t \in Threads : \E u \in Threads \ {t} :
        /\ threads[t].pc = "a_store_ub"
        /\ threads[t].req.name \notin DOMAIN used_by
        /\ threads[u].pc = "acquire"
        /\ threads[u].req.cmd = CMD_QUERY
        /\ threads[u].req.name = threads[t].req.name

\* the thread is inside `with self.__data_lock` or inside the locked part
\* of find_package
Holding(t) == threads[t].pc \notin {"idle", "acquire"}

\* C19: the store lock is held exactly by the thread that is inside an
\* operation and is free when no thread is, on every exit path (return,
\* early Refused return, raised exception); remove_package's nested
\* find_package does not wait for the lock; and every thread that requests
\* the lock eventually acquires it under fair scheduling.
C19_LockReleased ==
    /\ [](\A t \in Threads : Holding(t) <=> lock = t)
    /\ \A t \in Threads : (threads[t].pc = "acquire") ~> Holding(t)

\* a thread waits for the lock while the holder leaves add_package or
\* remove_package by an exception
C19_Witness_WaitsForRaisingHolder ==
    \E t \in Threads : \E u \in Threads \ {t} :
        /\ threads[t].pc = "release"
        /\ threads[t].ret \in {"KeyError", "ValueError"}
        /\ threads[u].pc = "acquire"

====
